---- MODULE Spec2Model ----
(***************************************************************************)
(* A model of src/bot.py: a Telegram movie bot.  The bot routes commands,  *)
(* button presses (callback data), free-text messages and location shares  *)
(* to a TMDb catalog client, a PostgreSQL favorites table and a keyboard   *)
(* renderer, and keeps one pending-intent flag per user in                 *)
(* context.user_data['state'].                                             *)
(*                                                                         *)
(* JSON objects are functions with a string domain; the empty object {}    *)
(* that tmdb_request returns on failure is the function with empty domain. *)
(* Python lists are sequences.  Strings are TLA+ strings, so callback data *)
(* is built with \o and taken apart again with Split.                      *)
(***************************************************************************)
EXTENDS Integers, Sequences, FiniteSets, Bags, TLC

(***************************************************************************)
(* Bounds of the model.                                                    *)
(***************************************************************************)
\* longest result list a catalog lookup returns in the handler model
MaxResults == 1
\* longest movie list handed to create_movie_keyboard in the render model
MaxMovies == 6
\* number of add_favorite_to_db calls running concurrently
NumWorkers == 3

(***************************************************************************)
(* Program constants.                                                      *)
(***************************************************************************)
\* movies[:5] in create_movie_keyboard
KeyboardLimit == 5
\* cast[:5] in show_movie_details
CastLimit == 5
\* release_date[:4]
YearLen == 4
\* list(GENRES.keys())[:10] in handle_menu_button
GenreMenuLimit == 10

(***************************************************************************)
(* Python helpers.                                                         *)
(***************************************************************************)
Min(a, b) == IF a < b THEN a ELSE b

EmptyDict == [k \in {} |-> 0]

\* dict.get(key, default)
Get(d, key, default) == IF key \in DOMAIN d THEN d[key] ELSE default

\* truthiness of a dict, of a list and of a string: empty is false
TruthyDict(d) == DOMAIN d # {}
TruthyList(l) == Len(l) > 0
TruthyStr(s) == s # ""

\* s[:n]
Take(s, n) == SubSeq(s, 1, Min(n, Len(s)))

\* position of the first "_" in s at or after i, 0 when there is none
RECURSIVE FindUnderscore(_, _)
FindUnderscore(s, i) ==
    IF i > Len(s) THEN 0
    ELSE IF SubSeq(s, i, i) = "_" THEN i
    ELSE FindUnderscore(s, i + 1)

\* s.split("_", 1)[1]: everything after the first underscore
SplitOnce1(s) == SubSeq(s, FindUnderscore(s, 1) + 1, Len(s))

\* s.split("_")[1]: the text between the first and the second underscore
SplitAll1(s) ==
    LET rest == SplitOnce1(s)
        j == FindUnderscore(rest, 1)
    IN  IF j = 0 THEN rest ELSE SubSeq(rest, 1, j - 1)

\* re.match("^" + prefix, s), the CallbackQueryHandler patterns
StartsWith(s, prefix) ==
    Len(s) >= Len(prefix) /\ SubSeq(s, 1, Len(prefix)) = prefix

\* sep.join(words)
RECURSIVE Join(_, _)
Join(words, sep) ==
    IF words = <<>> THEN ""
    ELSE IF Len(words) = 1 THEN words[1]
    ELSE words[1] \o sep \o Join(Tail(words), sep)

\* all sequences over S of length at most n
SeqsUpTo(S, n) == UNION {[1..k -> S] : k \in 0..n}

(***************************************************************************)
(* The universe of inputs: users, movies, what the catalog may answer.     *)
(***************************************************************************)
Users == {1, 2}
MovieIds == {1, 2}

\* int(text) for the identifiers the bot puts into callback data
ParseInt(s) == CHOOSE n \in MovieIds : ToString(n) = s

\* movie summaries as they come in "results"; the second has no release date
CatalogMovies ==
    { [id |-> 1, title |-> "Alpha", release_date |-> "2010-07-16"],
      [id |-> 2, title |-> "Zeta"] }

\* the render model adds a summary whose release date is the empty string
RenderMovies ==
    CatalogMovies \cup {[id |-> 3, title |-> "Gamma", release_date |-> ""]}

\* entries of a person's known_for list: a movie and a tv show
KnownForEntries ==
    { [media_type |-> "movie", id |-> 1, title |-> "Alpha",
       release_date |-> "2010-07-16"],
      [media_type |-> "tv", id |-> 7, name |-> "Show"] }

\* person search results: nobody, a person without known_for, or a person
\* with a known_for list
PersonResults ==
    {<<>>, <<[name |-> "Ann"]>>}
    \cup {<<[name |-> "Ann", known_for |-> k]>> :
            k \in SeqsUpTo(KnownForEntries, MaxResults)}

\* movie/{id}: the full object; for the first movie also one without title
\* and overview
MovieDetails(id) ==
    IF id = 1
    THEN {[id |-> 1, title |-> "Alpha", overview |-> "plot"], [id |-> 1]}
    ELSE {[id |-> id, title |-> "Zeta", overview |-> "plot"]}

CreditsBodies ==
    { [cast |-> <<>>], [cast |-> <<[name |-> "Ann"], [name |-> "Bob"]>>] }

\* genre/movie/list answers
GenreBodies ==
    { [genres |-> <<>>],
      [genres |-> <<[id |-> 28, name |-> "Action"],
                    [id |-> 18, name |-> "Drama"]>>] }

\* str.lower() on the genre names the catalog uses
Lower(s) == CASE s = "Action" -> "action"
              [] s = "Drama" -> "drama"
              [] OTHER -> s

\* str.capitalize() on the lowercase genre names
Capitalize(s) == CASE s = "action" -> "Action"
                   [] s = "drama" -> "Drama"
                   [] s = "western" -> "Western"
                   [] OTHER -> s

(***************************************************************************)
(* Presentation layer.                                                     *)
(***************************************************************************)
\* InlineKeyboardButton(text, callback_data=...)
InlineKeyboardButton(text, data) == [text |-> text, callback_data |-> data]

MenuReturnButton == InlineKeyboardButton("Tampilkan Menu Utama", "menu_menu")

\* movie.get("release_date", "Unknown")[:4] if movie.get("release_date")
\* else "N/A"
ReleaseYear(movie) ==
    IF "release_date" \in DOMAIN movie /\ TruthyStr(movie["release_date"])
    THEN Take(Get(movie, "release_date", "Unknown"), YearLen)
    ELSE "N/A"

\* one keyboard row of create_movie_keyboard
MovieRow(movie, callback_prefix) ==
    << InlineKeyboardButton(
         movie["title"] \o " (" \o ReleaseYear(movie) \o ")",
         callback_prefix \o "_" \o ToString(movie["id"])) >>

\* create_movie_keyboard looping over movies instead of movies[:5]
create_movie_keyboard_unlimited(movies, callback_prefix) ==
    [i \in 1..Len(movies) |-> MovieRow(movies[i], callback_prefix)]
    \o << <<MenuReturnButton>> >>

\* create_movie_keyboard(movies, callback_prefix): a list of rows
create_movie_keyboard(movies, callback_prefix) ==
    LET shown == Take(movies, KeyboardLimit)
    IN  [i \in 1..Len(shown) |-> MovieRow(shown[i], callback_prefix)]
        \o << <<MenuReturnButton>> >>

\* create_main_menu(): the fixed 4 x 2 grid
create_main_menu ==
    << << InlineKeyboardButton("Cari Film", "menu_search"),
          InlineKeyboardButton("Cari Aktor", "menu_actor") >>,
       << InlineKeyboardButton("Film Trending", "menu_trending"),
          InlineKeyboardButton("Genre Film", "menu_genres") >>,
       << InlineKeyboardButton("Tambah Favorit", "menu_favorite"),
          InlineKeyboardButton("List Favorit", "menu_favorites") >>,
       << InlineKeyboardButton("Cari Bioskop", "menu_cinema"),
          InlineKeyboardButton("Bantuan", "menu_help") >> >>

\* create_error_keyboard(): the single return-to-menu action
create_error_keyboard ==
    << <<InlineKeyboardButton("Kembali ke Menu", "menu_menu")>> >>

\* ReplyKeyboardMarkup([[KeyboardButton(..., request_location=True)]])
LocationKeyboard ==
    << <<[text |-> "Kirim Lokasimu Sekarang", request_location |-> TRUE]>> >>

\* a message the bot sends or edits: which text, the values put into it (a
\* list), its markup
Message(text, about, markup) ==
    [text |-> text, about |-> about, markup |-> markup]

(***************************************************************************)
(* State.                                                                  *)
(***************************************************************************)
VARIABLES
    user_data,      \* context.user_data of each user: {} or {'state': ...}
    favorites,      \* the rows of table favorites, a bag of rows
    GENRES,         \* the genre mapping loaded by main()
    last,           \* what the handler invoked last did
    untouched,      \* history: the users who pressed no button since their
                    \* last text message
    render,         \* render model: the arguments and result of one call
    worker          \* concurrent model: each add_favorite_to_db call

vars == <<user_data, favorites, GENRES, last, untouched, render, worker>>

(***************************************************************************)
(* Catalog client.                                                         *)
(***************************************************************************)
SearchBodies == {[results |-> l] : l \in SeqsUpTo(CatalogMovies, MaxResults)}

PersonBodies == {[results |-> l] : l \in PersonResults}

\* what a 200 answer of the endpoint may hold
Bodies(endpoint) ==
    CASE endpoint = "search/movie" -> SearchBodies
      [] endpoint = "trending/movie/day" -> SearchBodies
      [] endpoint = "discover/movie" -> SearchBodies
      [] endpoint = "search/person" -> PersonBodies
      [] endpoint = "genre/movie/list" -> GenreBodies
      [] endpoint \in {"movie/" \o ToString(i) : i \in MovieIds} ->
           MovieDetails(CHOOSE i \in MovieIds :
                            endpoint = "movie/" \o ToString(i))
      [] OTHER -> CreditsBodies

\* tmdb_request(endpoint, params): every value the call may return; a
\* RequestException (non-200 status, network error) gives {}
tmdb_request(endpoint) == {EmptyDict} \cup Bodies(endpoint)

\* a catalog request a handler made, with what it got
Request(endpoint, response) == [endpoint |-> endpoint, response |-> response]

\* load_genres(): the mapping and, as a dict keeps it, the insertion order
load_genres(data) ==
    IF TruthyDict(data) /\ "genres" \in DOMAIN data
    THEN LET g == data["genres"]
         IN  [keys |-> [i \in 1..Len(g) |-> Lower(g[i]["name"])],
              ids |-> [n \in {Lower(g[i]["name"]) : i \in 1..Len(g)} |->
                         LET i == CHOOSE i \in 1..Len(g) :
                                     /\ Lower(g[i]["name"]) = n
                                     /\ \A j \in (i+1)..Len(g) :
                                            Lower(g[j]["name"]) # n
                         IN  g[i]["id"]]]
    ELSE [keys |-> <<>>, ids |-> EmptyDict]

(***************************************************************************)
(* Favorites store.                                                        *)
(***************************************************************************)
\* psycopg2.connect succeeds, raises OperationalError, or a later statement
\* raises
DbOutcomes == {"ok", "no_connection", "error"}

Row(user_id, movie_id, movie_title) ==
    [user_id |-> user_id, movie_id |-> movie_id, movie_title |-> movie_title]

\* the rows of the table that hold the pair
RowsOf(rows, user_id, movie_id) ==
    {r \in BagToSet(rows) : r.user_id = user_id /\ r.movie_id = movie_id}

\* INSERT INTO favorites ... without the conflict clause and constraint
InsertAlways(rows, row) ==
    [rows |-> rows (+) SetToBag({row}), rowcount |-> 1]

\* INSERT INTO favorites ... ON CONFLICT (user_id, movie_id) DO NOTHING on a
\* table with UNIQUE(user_id, movie_id)
InsertOnConflictDoNothing(rows, row) ==
    IF RowsOf(rows, row.user_id, row.movie_id) # {}
    THEN [rows |-> rows, rowcount |-> 0]
    ELSE [rows |-> rows (+) SetToBag({row}), rowcount |-> 1]

AddedMessage(movie_title) ==
    "'" \o movie_title \o "' berhasil ditambahkan ke favorit!"
ExistsMessage(movie_title) ==
    "'" \o movie_title \o "' sudah ada di favorit Anda."

\* add_favorite_to_db(user_id, movie_id, movie_title) on table `rows`, with
\* the connection behaving as `outcome`
add_favorite_to_db(rows, user_id, movie_id, movie_title, outcome) ==
    IF outcome = "no_connection"
    THEN [rows |-> rows, success |-> FALSE,
          message |-> "Database connection error."]
    ELSE IF outcome = "error"
    THEN [rows |-> rows, success |-> FALSE,
          message |-> "Gagal menambahkan favorit."]
    ELSE LET done == InsertOnConflictDoNothing(
                         rows, Row(user_id, movie_id, movie_title))
             was_inserted == done.rowcount > 0
         IN  [rows |-> done.rows, success |-> was_inserted,
              message |-> IF was_inserted THEN AddedMessage(movie_title)
                          ELSE ExistsMessage(movie_title)]

\* the collation ORDER BY movie_title uses on the titles of the model
TitleRank(t) == CASE t = "Alpha" -> 1
                  [] t = "Gamma" -> 2
                  [] t = "Unknown" -> 3
                  [] OTHER -> 4

RECURSIVE SortTitles(_)
SortTitles(titles) ==
    IF BagToSet(titles) = {} THEN <<>>
    ELSE LET t == CHOOSE t \in BagToSet(titles) :
                     \A o \in BagToSet(titles) : TitleRank(t) <= TitleRank(o)
         IN  <<t>> \o SortTitles(titles (-) SetToBag({t}))

\* get_favorites_from_db(user_id)
get_favorites_from_db(rows, user_id, outcome) ==
    IF outcome # "ok" THEN <<>>
    ELSE LET mine == {r \in BagToSet(rows) : r.user_id = user_id}
         IN  SortTitles(BagOfAll(LAMBDA r : r.movie_title,
                                 [r \in mine |-> rows[r]]))

\* a store call a handler made
DbCall(op, outcome) == [op |-> op, outcome |-> outcome]

(***************************************************************************)
(* Handlers.  Each action is one handler invocation, run to its end: the   *)
(* application is built without concurrent_updates, so updates are         *)
(* processed one after the other.                                          *)
(***************************************************************************)
\* the record of one handler invocation
Run(handler, user, data, state, deleted, sent, requests, db) ==
    [handler |-> handler, user |-> user, data |-> data, state |-> state,
     fresh |-> user \in untouched, deleted |-> deleted, sent |-> sent,
     requests |-> requests, db |-> db]

\* no handler is running
NoRun == [handler |-> "none", user |-> 0, data |-> "", state |-> "n/a",
          fresh |-> FALSE, deleted |-> FALSE, sent |-> <<>>,
          requests |-> <<>>, db |-> <<>>]

\* free text a user may type, as text.split() sees it
Texts == {<<"tom", "hanks">>}

\* the arguments of /favorite
CommandArgs == {<<>>} \cup Texts

\* callback data the handlers are registered for
MenuData == {"menu_search", "menu_actor", "menu_favorite", "menu_favorites",
             "menu_trending", "menu_genres", "menu_cinema", "menu_help",
             "menu_menu", "menu_unknown"}
GenreData == {"genre_action", "genre_drama", "genre_western"}
DetailData == {"detail_" \o ToString(i) : i \in MovieIds}
SaveData == {"save_" \o ToString(i) : i \in MovieIds}
CallbackData == MenuData \cup GenreData \cup DetailData \cup SaveData

\* start, were it to drop the user's pending state
StartResetsState(u) ==
    /\ last = NoRun
    /\ last' = Run("start", u, "/start", "n/a", FALSE,
                   <<Message("welcome", <<>>, create_main_menu)>>, <<>>, <<>>)
    /\ user_data' = [user_data EXCEPT ![u] = EmptyDict]
    /\ UNCHANGED <<favorites, GENRES, untouched, render, worker>>

\* start
Start(u) ==
    /\ last = NoRun
    /\ last' = Run("start", u, "/start", "n/a", FALSE,
                   <<Message("welcome", <<>>, create_main_menu)>>, <<>>, <<>>)
    /\ UNCHANGED <<user_data, favorites, GENRES, untouched, render, worker>>

\* add_favorite_by_title with context.args = args and the search answering
\* `data`: the messages sent and the requests made
add_favorite_by_title(args, data) ==
    LET query == Join(args, " ")
        movies == Get(data, "results", <<>>)
        asked == <<Request("search/movie", data)>>
    IN  IF ~TruthyStr(query)
        THEN [sent |-> <<Message("usage", <<>>, create_error_keyboard)>>,
              requests |-> <<>>]
        ELSE IF ~TruthyList(movies)
        THEN [sent |-> <<Message("no_movie_found", <<query>>,
                                 create_error_keyboard)>>,
              requests |-> asked]
        ELSE [sent |-> <<Message("pick_favorite", <<>>,
                                 create_movie_keyboard(movies, "save"))>>,
              requests |-> asked]

\* /favorite [title]
AddFavoriteByTitle(u) ==
    /\ last = NoRun
    /\ \E args \in CommandArgs :
        \E data \in IF args = <<>> THEN {EmptyDict}
                    ELSE tmdb_request("search/movie") :
        LET r == add_favorite_by_title(args, data)
        IN  /\ last' = Run("favorite", u, Join(args, " "), "n/a", FALSE,
                           r.sent, r.requests, <<>>)
            /\ UNCHANGED <<user_data, favorites, GENRES, untouched, render,
                           worker>>

\* the listing both favorites views send
FavoritesMessage(favorites_list, empty_text) ==
    IF ~TruthyList(favorites_list)
    THEN Message(empty_text, <<>>, create_error_keyboard)
    ELSE Message("favorites", favorites_list, create_error_keyboard)

\* view_favorites: /favorites
ViewFavorites(u) ==
    /\ last = NoRun
    /\ \E outcome \in DbOutcomes :
        LET favorites_list == get_favorites_from_db(favorites, u, outcome)
        IN  /\ last' = Run("favorites", u, "/favorites", "n/a", FALSE,
                           <<FavoritesMessage(favorites_list,
                                              "no_favorites_command")>>,
                           <<>>, <<DbCall("list", outcome)>>)
            /\ UNCHANGED <<user_data, favorites, GENRES, untouched, render,
                           worker>>

\* context.user_data.get('state', None): reads the flag and leaves it
PeekState(d) == [value |-> Get(d, "state", "None"), rest |-> d]

\* context.user_data.pop('state', None): reads the flag and removes it
PopState(d) ==
    [value |-> Get(d, "state", "None"),
     rest |-> [k \in DOMAIN d \ {"state"} |-> d[k]]]

\* call_search_movie(query_text) without the `if not movies` return
call_search_movie_unchecked(args, data) ==
    [sent |-> <<Message("search_results", <<>>,
                        create_movie_keyboard(Get(data, "results", <<>>),
                                              "detail"))>>,
     requests |-> <<Request("search/movie", data)>>]

\* call_search_movie(query_text)
call_search_movie(args, data) ==
    LET movies == Get(data, "results", <<>>)
    IN  [sent |-> IF ~TruthyList(movies)
                  THEN <<Message("no_movie_found", <<Join(args, " ")>>,
                                 create_error_keyboard)>>
                  ELSE <<Message("search_results", <<>>,
                                 create_movie_keyboard(movies, "detail"))>>,
         requests |-> <<Request("search/movie", data)>>]

\* the known_for entries whose media_type is 'movie'
MovieCredits(known_for) ==
    SelectSeq(known_for, LAMBDA m : Get(m, "media_type", "None") = "movie")

\* call_search_actor(query_text)
call_search_actor(args, data) ==
    LET actors == Get(data, "results", <<>>)
    IN  [sent |->
           IF \/ ~TruthyList(actors)
              \/ ~TruthyList(Get(actors[1], "known_for", <<>>))
           THEN <<Message("no_actor_found", <<Join(args, " ")>>,
                          create_error_keyboard)>>
           ELSE <<Message("actor_movies", <<actors[1]["name"]>>,
                          create_movie_keyboard(
                              MovieCredits(Get(actors[1], "known_for", <<>>)),
                              "detail"))>>,
         requests |-> <<Request("search/person", data)>>]

\* handle_text_message's chain with the final else searching for a title
TextDispatchElseSearch(state, args, data) ==
    CASE state = "actor" -> call_search_actor(args, data)
      [] state = "favorite" -> add_favorite_by_title(args, data)
      [] OTHER -> call_search_movie(args, data)

\* the branch of handle_text_message taken for the popped state
TextDispatch(state, args, data) ==
    CASE state = "search" -> call_search_movie(args, data)
      [] state = "actor" -> call_search_actor(args, data)
      [] state = "favorite" -> add_favorite_by_title(args, data)
      [] OTHER -> [sent |-> <<Message("not_understood", <<>>,
                                      create_main_menu)>>,
                   requests |-> <<>>]

\* the endpoint the branch asks
TextEndpoint(state) ==
    IF state = "actor" THEN "search/person" ELSE "search/movie"

\* handle_text_message
HandleTextMessage(u) ==
    /\ last = NoRun
    /\ \E args \in Texts :
        LET popped == PopState(user_data[u])
        IN  \E data \in IF popped.value \in {"search", "actor", "favorite"}
                         THEN tmdb_request(TextEndpoint(popped.value))
                         ELSE {EmptyDict} :
                LET r == TextDispatch(popped.value, args, data)
                IN  /\ user_data' = [user_data EXCEPT ![u] = popped.rest]
                    /\ untouched' = untouched \cup {u}
                    /\ last' = Run("text", u, Join(args, " "), popped.value,
                                   FALSE, r.sent, r.requests, <<>>)
                    /\ UNCHANGED <<favorites, GENRES, render, worker>>

\* context.user_data['state'] = value
SetState(d, value) ==
    [k \in DOMAIN d \cup {"state"} |-> IF k = "state" THEN value ELSE d[k]]

\* the keyboard of the genre menu
GenreKeyboard ==
    LET genres_list == Take(GENRES.keys, GenreMenuLimit)
    IN  [i \in 1..Len(genres_list) |->
           <<InlineKeyboardButton(Capitalize(genres_list[i]),
                                  "genre_" \o genres_list[i])>>]
        \o create_error_keyboard

\* the if/elif chain of handle_menu_button for `action`: the user's data
\* afterwards, the messages sent, the requests and store calls made
MenuBranch(action, u, data, outcome) ==
    LET keep == [user_data |-> user_data[u], sent |-> <<>>,
                 requests |-> <<>>, db |-> <<>>]
        movies == Get(data, "results", <<>>)
    IN  CASE action = "search" ->
               [keep EXCEPT !.user_data = SetState(user_data[u], "search"),
                            !.sent = <<Message("ask_title", <<>>, <<>>)>>]
          [] action = "actor" ->
               [keep EXCEPT !.user_data = SetState(user_data[u], "actor"),
                            !.sent = <<Message("ask_actor", <<>>, <<>>)>>]
          [] action = "favorite" ->
               [keep EXCEPT !.user_data = SetState(user_data[u], "favorite"),
                            !.sent = <<Message("ask_favorite", <<>>, <<>>)>>]
          [] action = "favorites" ->
               [keep EXCEPT
                  !.sent = <<FavoritesMessage(
                               get_favorites_from_db(favorites, u, outcome),
                               "no_favorites_button")>>,
                  !.db = <<DbCall("list", outcome)>>]
          [] action = "trending" ->
               [keep EXCEPT
                  !.sent = IF ~TruthyList(movies)
                           THEN <<Message("trending_failed", <<>>,
                                          create_error_keyboard)>>
                           ELSE <<Message("trending", <<>>,
                                          create_movie_keyboard(movies,
                                                                "detail"))>>,
                  !.requests = <<Request("trending/movie/day", data)>>]
          [] action = "genres" ->
               [keep EXCEPT !.sent = <<Message("genres", <<>>, GenreKeyboard)>>]
          [] action = "cinema" ->
               [keep EXCEPT !.sent = <<Message("ask_location", <<>>,
                                               LocationKeyboard)>>]
          [] action = "help" ->
               [keep EXCEPT !.sent = <<Message("help", <<>>,
                                               create_error_keyboard)>>]
          [] action = "menu" ->
               [keep EXCEPT !.sent = <<Message("welcome", <<>>,
                                               create_main_menu)>>]
          [] OTHER -> keep

\* handle_menu_button: callback data matching ^menu_
HandleMenuButton(u) ==
    /\ last = NoRun
    /\ \E token \in CallbackData :
        /\ StartsWith(token, "menu_")
        /\ \E data \in IF token = "menu_trending"
                        THEN tmdb_request("trending/movie/day")
                        ELSE {EmptyDict},
              outcome \in IF token = "menu_favorites" THEN DbOutcomes
                          ELSE {"ok"} :
              LET action == SplitOnce1(token)
                  r == MenuBranch(action, u, data, outcome)
              IN  /\ user_data' = [user_data EXCEPT ![u] = r.user_data]
                  /\ untouched' = untouched \ {u}
                  /\ last' = Run("menu", u, token, "n/a", TRUE, r.sent,
                                 r.requests, r.db)
                  /\ UNCHANGED <<favorites, GENRES, render, worker>>

\* genre_id = GENRES.get(genre_name) with the check skipped
NoGenreCheck(genre_name) == FALSE

\* genre_id = GENRES.get(genre_name); if not genre_id
InvalidGenre(genre_name) ==
    \/ genre_name \notin DOMAIN GENRES.ids
    \/ GENRES.ids[genre_name] = 0

\* handle_genre_button: callback data matching ^genre_
HandleGenreButton(u) ==
    /\ last = NoRun
    /\ \E token \in CallbackData :
        /\ StartsWith(token, "genre_")
        /\ \E data \in IF InvalidGenre(SplitOnce1(token)) THEN {EmptyDict}
                        ELSE tmdb_request("discover/movie") :
              LET genre_name == SplitOnce1(token)
                  movies == Get(data, "results", <<>>)
                  sent ==
                      IF InvalidGenre(genre_name)
                      THEN <<Message("invalid_genre", <<genre_name>>,
                                     create_error_keyboard)>>
                      ELSE IF ~TruthyList(movies)
                      THEN <<Message("no_genre_movies",
                                     <<Capitalize(genre_name)>>,
                                     create_error_keyboard)>>
                      ELSE <<Message("genre_movies",
                                     <<Capitalize(genre_name)>>,
                                     create_movie_keyboard(movies,
                                                           "detail"))>>
                  requests ==
                      IF InvalidGenre(genre_name) THEN <<>>
                      ELSE <<Request("discover/movie", data)>>
              IN  /\ untouched' = untouched \ {u}
                  /\ last' = Run("genre", u, token, "n/a", TRUE, sent,
                                 requests, <<>>)
                  /\ UNCHANGED <<user_data, favorites, GENRES, render,
                                 worker>>

\* show_movie_details: callback data matching ^detail_
ShowMovieDetails(u) ==
    /\ last = NoRun
    /\ \E token \in CallbackData :
        /\ StartsWith(token, "detail_")
        /\ LET movie_id == SplitAll1(token)
           IN  \E movie \in tmdb_request("movie/" \o movie_id) :
               \E credits \in IF ~TruthyDict(movie) THEN {EmptyDict}
                               ELSE tmdb_request("movie/" \o movie_id
                                                 \o "/credits") :
                  LET cast_list ==
                          IF TruthyDict(credits)
                          THEN Join([i \in 1..Len(Take(Get(credits, "cast",
                                                           <<>>), CastLimit))
                                       |-> Get(credits, "cast", <<>>)[i].name],
                                    ", ")
                          ELSE "Info pemeran tidak tersedia."
                      overview ==
                          IF TruthyStr(Get(movie, "overview", ""))
                          THEN movie["overview"]
                          ELSE "Sinopsis tidak tersedia."
                      keyboard ==
                          << <<InlineKeyboardButton("Tambah ke Favorit",
                                                    "save_" \o movie_id)>>,
                             <<InlineKeyboardButton("Kembali ke Menu",
                                                    "menu_menu")>> >>
                      found == TruthyDict(movie)
                  IN  /\ untouched' = untouched \ {u}
                      /\ last' = Run(
                           "detail", u, token, "n/a", FALSE,
                           IF ~found
                           THEN <<Message("detail_not_found", <<>>,
                                          create_error_keyboard)>>
                           ELSE <<Message("detail",
                                          <<Get(movie, "title", "N/A"),
                                            overview, cast_list>>,
                                          keyboard)>>,
                           IF ~found
                           THEN <<Request("movie/" \o movie_id, movie)>>
                           ELSE <<Request("movie/" \o movie_id, movie),
                                  Request("movie/" \o movie_id \o "/credits",
                                          credits)>>,
                           <<>>)
                      /\ UNCHANGED <<user_data, favorites, GENRES, render,
                                     worker>>

\* save_favorite_movie, were it to call add_favorite_to_db before it looks
\* at the detail it fetched
SaveFavoriteMovieAddsFirst(u) ==
    /\ last = NoRun
    /\ \E token \in CallbackData :
        /\ StartsWith(token, "save_")
        /\ LET movie_id == ParseInt(SplitAll1(token))
               endpoint == "movie/" \o ToString(movie_id)
           IN  \E movie \in tmdb_request(endpoint), outcome \in DbOutcomes :
                  LET movie_title == Get(movie, "title", "Unknown")
                      added == add_favorite_to_db(favorites, u, movie_id,
                                                  movie_title, outcome)
                      call == <<[op |-> "add", outcome |-> outcome,
                                 had |-> RowsOf(favorites, u, movie_id),
                                 movie_id |-> movie_id,
                                 movie_title |-> movie_title,
                                 success |-> added.success,
                                 message |-> added.message]>>
                  IN  /\ untouched' = untouched \ {u}
                      /\ favorites' = added.rows
                      /\ last' = Run(
                           "save", u, token, "n/a", FALSE,
                           IF ~TruthyDict(movie)
                           THEN <<Message("save_no_detail", <<>>,
                                          create_error_keyboard)>>
                           ELSE <<Message(IF added.success THEN "saved"
                                          ELSE "not_saved",
                                          <<added.message>>,
                                          create_error_keyboard)>>,
                           <<Request(endpoint, movie)>>, call)
                      /\ UNCHANGED <<user_data, GENRES, render, worker>>

\* save_favorite_movie: callback data matching ^save_
SaveFavoriteMovie(u) ==
    /\ last = NoRun
    /\ \E token \in CallbackData :
        /\ StartsWith(token, "save_")
        /\ LET movie_id == ParseInt(SplitAll1(token))
               endpoint == "movie/" \o ToString(movie_id)
           IN  \E movie \in tmdb_request(endpoint) :
               \E outcome \in IF ~TruthyDict(movie) THEN {"ok"}
                               ELSE DbOutcomes :
                  LET movie_title == Get(movie, "title", "Unknown")
                      added == add_favorite_to_db(favorites, u, movie_id,
                                                  movie_title, outcome)
                  IN  /\ untouched' = untouched \ {u}
                      /\ IF ~TruthyDict(movie)
                         THEN /\ favorites' = favorites
                              /\ last' = Run(
                                   "save", u, token, "n/a", FALSE,
                                   <<Message("save_no_detail", <<>>,
                                             create_error_keyboard)>>,
                                   <<Request(endpoint, movie)>>, <<>>)
                         ELSE /\ favorites' = added.rows
                              /\ last' = Run(
                                   "save", u, token, "n/a", FALSE,
                                   <<Message(IF added.success THEN "saved"
                                             ELSE "not_saved",
                                             <<added.message>>,
                                             create_error_keyboard)>>,
                                   <<Request(endpoint, movie)>>,
                                   <<[op |-> "add", outcome |-> outcome,
                                      had |-> RowsOf(favorites, u, movie_id),
                                      movie_id |-> movie_id,
                                      movie_title |-> movie_title,
                                      success |-> added.success,
                                      message |-> added.message]>>)
                      /\ UNCHANGED <<user_data, GENRES, render, worker>>

\* what update.message.location may hold, as str() prints the floats
Locations == {[latitude |-> "-6.2", longitude |-> "106.8"]}

\* handle_location
HandleLocation(u) ==
    /\ last = NoRun
    /\ \E location \in Locations :
        LET maps_url == "https://www.google.com/maps/search/bioskop/@"
                        \o location.latitude \o "," \o location.longitude
                        \o ",15z"
        IN  /\ last' = Run("location", u, maps_url, "n/a", FALSE,
                           <<Message("location_received", <<maps_url>>, <<>>),
                             Message("anything_else", <<>>,
                                     create_main_menu)>>,
                           <<>>, <<>>)
            /\ UNCHANGED <<user_data, favorites, GENRES, untouched, render,
                           worker>>

(***************************************************************************)
(* The handler model.                                                      *)
(***************************************************************************)
Workers == 1..NumWorkers

IdleWorker == [pc |-> "idle"]

IdleRender == [movies |-> <<>>, callback_prefix |-> "detail",
               keyboard |-> <<>>, done |-> FALSE]

\* main(): setup_database() leaves an empty table, load_genres() fills
\* GENRES from whatever genre/movie/list answers; no update was handled
Init ==
    /\ user_data = [u \in Users |-> EmptyDict]
    /\ favorites = EmptyBag
    /\ GENRES \in {load_genres(data) :
                     data \in tmdb_request("genre/movie/list")}
    /\ last = NoRun
    /\ untouched = {}
    /\ render = IdleRender
    /\ worker = [w \in Workers |-> IdleWorker]

\* the handler returned; run_polling waits for the next update
NextUpdate ==
    /\ last # NoRun
    /\ last' = NoRun
    /\ UNCHANGED <<user_data, favorites, GENRES, untouched, render, worker>>

\* application.run_polling(): updates are handled one at a time, each by the
\* handler registered for it
Next ==
    \/ \E u \in Users : Start(u)
    \/ \E u \in Users : AddFavoriteByTitle(u)
    \/ \E u \in Users : ViewFavorites(u)
    \/ \E u \in Users : ShowMovieDetails(u)
    \/ \E u \in Users : SaveFavoriteMovie(u)
    \/ \E u \in Users : HandleMenuButton(u)
    \/ \E u \in Users : HandleGenreButton(u)
    \/ \E u \in Users : HandleLocation(u)
    \/ \E u \in Users : HandleTextMessage(u)
    \/ NextUpdate

Spec == Init /\ [][Next]_vars

(***************************************************************************)
(* The render model: create_movie_keyboard on every movie list up to       *)
(* MaxMovies entries and both prefixes the handlers use.                   *)
(***************************************************************************)
Prefixes == {"detail", "save"}

InitRender ==
    /\ user_data = [u \in Users |-> EmptyDict]
    /\ favorites = EmptyBag
    /\ GENRES = load_genres(EmptyDict)
    /\ last = NoRun
    /\ untouched = {}
    /\ render \in {[IdleRender EXCEPT !.movies = m, !.callback_prefix = p] :
                     m \in SeqsUpTo(RenderMovies, MaxMovies), p \in Prefixes}
    /\ worker = [w \in Workers |-> IdleWorker]

CreateMovieKeyboard ==
    /\ ~render.done
    /\ render' = [render EXCEPT
                    !.keyboard = create_movie_keyboard(render.movies,
                                                       render.callback_prefix),
                    !.done = TRUE]
    /\ UNCHANGED <<user_data, favorites, GENRES, last, untouched, worker>>

NextRender == CreateMovieKeyboard

SpecRender == InitRender /\ [][NextRender]_vars

(***************************************************************************)
(* The concurrent model: NumWorkers calls of add_favorite_to_db, each on   *)
(* its own psycopg2 connection, interleaved statement by statement.  The   *)
(* table has UNIQUE(user_id, movie_id): an INSERT that meets another       *)
(* transaction's uncommitted row for its pair waits until that transaction *)
(* commits or rolls back.                                                  *)
(***************************************************************************)
\* the title each call carries
WorkerTitle(w) == IF w % 2 = 1 THEN "Alpha" ELSE "Unknown"

\* the uncommitted rows of the transactions other than w's
PendingOthers(w) ==
    {Row(worker[o].user_id, worker[o].movie_id, worker[o].movie_title) :
       o \in {o \in Workers \ {w} : worker[o].pc = "commit"
                                    /\ worker[o].rowcount = 1}}

\* the INSERT of a table without the constraint: only committed rows are
\* looked at
InsertUnconstrained(rows, pending, row) ==
    IF RowsOf(rows, row.user_id, row.movie_id) # {} THEN "nothing"
    ELSE "insert"

\* what INSERT ... ON CONFLICT (user_id, movie_id) DO NOTHING does on the
\* table UNIQUE(user_id, movie_id) holding `rows`, with `pending` the
\* uncommitted rows of other transactions
InsertDecision(rows, pending, row) ==
    IF RowsOf(rows, row.user_id, row.movie_id) # {} THEN "nothing"
    ELSE IF \E r \in pending : r.user_id = row.user_id
                               /\ r.movie_id = row.movie_id
    THEN "wait"
    ELSE "insert"

Finished(w, success, message) ==
    [worker[w] EXCEPT !.pc = "done", !.success = success,
                      !.message = message]

\* add_favorite_to_db is called; get_db_connection() connects or not
Call(w) ==
    /\ worker[w].pc = "idle"
    /\ \E user_id \in Users, conn \in BOOLEAN :
          LET call == [pc |-> "execute", user_id |-> user_id, movie_id |-> 1,
                       movie_title |-> WorkerTitle(w), rowcount |-> 0,
                       success |-> FALSE, message |-> ""]
          IN  worker' = [worker EXCEPT ![w] =
                           IF conn THEN call
                           ELSE [call EXCEPT
                                   !.pc = "done",
                                   !.message = "Database connection error."]]
    /\ UNCHANGED <<user_data, favorites, GENRES, last, untouched, render>>

\* cur.execute(INSERT ...); was_inserted = cur.rowcount > 0
Execute(w) ==
    /\ worker[w].pc = "execute"
    /\ LET decision == InsertDecision(
                           favorites, PendingOthers(w),
                           Row(worker[w].user_id, worker[w].movie_id,
                               worker[w].movie_title))
       IN  /\ decision # "wait"
           /\ worker' = [worker EXCEPT
                           ![w].pc = "commit",
                           ![w].rowcount = IF decision = "insert" THEN 1
                                           ELSE 0]
    /\ UNCHANGED <<user_data, favorites, GENRES, last, untouched, render>>

\* conn.commit(), the return, and conn.close() in the finally clause
Commit(w) ==
    /\ worker[w].pc = "commit"
    /\ LET was_inserted == worker[w].rowcount > 0
       IN  /\ favorites' =
                 IF was_inserted
                 THEN favorites (+) SetToBag({Row(worker[w].user_id,
                                                  worker[w].movie_id,
                                                  worker[w].movie_title)})
                 ELSE favorites
           /\ worker' = [worker EXCEPT ![w] =
                 Finished(w, was_inserted,
                          IF was_inserted
                          THEN AddedMessage(worker[w].movie_title)
                          ELSE ExistsMessage(worker[w].movie_title))]
    /\ UNCHANGED <<user_data, GENRES, last, untouched, render>>

\* execute or commit raises: except Exception, then conn.close() rolls the
\* transaction back
Fail(w) ==
    /\ worker[w].pc \in {"execute", "commit"}
    /\ worker' = [worker EXCEPT ![w] =
                    Finished(w, FALSE, "Gagal menambahkan favorit.")]
    /\ UNCHANGED <<user_data, favorites, GENRES, last, untouched, render>>

NextConc ==
    \/ \E w \in Workers : Call(w)
    \/ \E w \in Workers : Execute(w)
    \/ \E w \in Workers : Commit(w)
    \/ \E w \in Workers : Fail(w)

SpecConc == Init /\ [][NextConc]_vars

(***************************************************************************)
(* Properties.                                                             *)
(***************************************************************************)
\* the pending intent of user u: "None" when user_data holds no 'state'
Pending(u) == Get(user_data[u], "state", "None")

NotUnderstoodReply == <<Message("not_understood", <<>>, create_main_menu)>>

\* C1: after handle_text_message handled a text of a user, that user's
\* pending intent is none, whatever intent was pending and whatever the
\* catalog answered; a user who pressed no button since their last text has
\* no pending intent, and a text of such a user gets the no-intent reply.
C1_TextClearsIntent ==
    /\ last.handler = "text" =>
          /\ Pending(last.user) = "None"
          /\ last.fresh => /\ last.state = "None"
                           /\ last.sent = NotUnderstoodReply
    /\ \A u \in untouched : Pending(u) = "None"

\* a text arrived while a title search was pending, the catalog failed, and
\* the intent is gone
C1_Witness ==
    /\ last.handler = "text"
    /\ last.state = "search"
    /\ last.requests = <<Request("search/movie", EmptyDict)>>
    /\ Pending(last.user) = "None"

\* C2: a text handled with no pending intent is answered with the main menu
\* under the "didn't understand" text, with no catalog request and no
\* favorites-store call made by the handler.
C2_NoIntentNoLookup ==
    (last.handler = "text" /\ last.state = "None") =>
        /\ last.sent = NotUnderstoodReply
        /\ last.requests = <<>>
        /\ last.db = <<>>

\* a text was handled with no pending intent
C2_Witness ==
    /\ last.handler = "text"
    /\ last.state = "None"
    /\ Len(last.sent) = 1

\* the top match of the person search the last handler made has no
\* known_for entry of media type movie
TopMatchWithoutMovies ==
    /\ Len(last.requests) = 1
    /\ LET actors == Get(last.requests[1].response, "results", <<>>)
       IN  /\ TruthyList(actors)
           /\ MovieCredits(Get(actors[1], "known_for", <<>>)) = <<>>

\* C3: a text handled with intent awaiting-actor-name whose top match has no
\* movie-type known_for entry is answered "not found" with the single
\* return-to-menu action.
C3_ActorWithoutMoviesNotFound ==
    (last.handler = "text" /\ last.state = "actor" /\ TopMatchWithoutMovies)
        => /\ Len(last.sent) = 1
           /\ last.sent[1].text = "no_actor_found"
           /\ last.sent[1].markup = create_error_keyboard

\* number of rows of the table that hold the pair
PairCount(rows, user_id, movie_id) ==
    BagCardinality([r \in RowsOf(rows, user_id, movie_id) |-> rows[r]])

\* C4: with the store reachable, add(u, m, title) reports inserted=true
\* exactly when the store held no row for (u, m); otherwise it reports
\* inserted=false with the "already exists" message and the row is the one
\* that was there, title included; the store never holds two rows for a pair.
C4_AddIdempotent ==
    /\ \A u \in Users, m \in MovieIds : PairCount(favorites, u, m) <= 1
    /\ (last.handler = "save" /\ last.db # <<>>) =>
          LET add == last.db[1]
              now == RowsOf(favorites, last.user, add.movie_id)
          IN  add.outcome = "ok" =>
                /\ add.success <=> add.had = {}
                /\ add.had = {} =>
                      /\ now = {Row(last.user, add.movie_id,
                                    add.movie_title)}
                      /\ add.message = AddedMessage(add.movie_title)
                /\ add.had # {} =>
                      /\ now = add.had
                      /\ add.message = ExistsMessage(add.movie_title)

\* a pair was added again, under another title than the stored one
C4_Witness ==
    /\ last.handler = "save"
    /\ last.db # <<>>
    /\ last.db[1].outcome = "ok"
    /\ ~last.db[1].success
    /\ \E r \in last.db[1].had : r.movie_title # last.db[1].movie_title
    /\ PairCount(favorites, last.user, last.db[1].movie_id) = 1

\* C5: a genre button whose name is not in the loaded mapping is answered
\* "invalid genre" and no discover request is made; a name in the mapping
\* always leads to the discover request.
C5_GenreLookup ==
    last.handler = "genre" =>
        LET genre_name == SplitOnce1(last.data)
        IN  IF genre_name \notin DOMAIN GENRES.ids
            THEN /\ last.sent = <<Message("invalid_genre", <<genre_name>>,
                                          create_error_keyboard)>>
                 /\ last.requests = <<>>
            ELSE /\ Len(last.requests) = 1
                 /\ last.requests[1].endpoint = "discover/movie"
                 /\ Len(last.sent) = 1
                 /\ last.sent[1].text \in {"genre_movies", "no_genre_movies"}

\* a genre button was pressed while the mapping is empty
C5_Witness ==
    /\ last.handler = "genre"
    /\ DOMAIN GENRES.ids = {}
    /\ last.data = "genre_action"
    /\ last.sent[1].text = "invalid_genre"

\* the generic not-found / error texts
ErrorTexts == {"no_movie_found", "no_actor_found", "trending_failed",
               "no_genre_movies", "detail_not_found", "save_no_detail"}

ErrorReply ==
    /\ Len(last.sent) = 1
    /\ last.sent[1].text \in ErrorTexts
    /\ last.sent[1].markup = create_error_keyboard

IsCredits(endpoint) ==
    \E i \in MovieIds : endpoint = "movie/" \o ToString(i) \o "/credits"

C7_EveryHandlerReplies ==
    last # NoRun => Len(last.sent) >= 1

\* C8: create_movie_keyboard(movies, p) holds min(n, 5) movie rows, the
\* first min(n, 5) movies in order, each with callback data p_<id>, and then
\* exactly one return-to-menu row.
C8_RenderResults ==
    render.done =>
        LET n == Len(render.movies)
            k == IF n < 5 THEN n ELSE 5
        IN  /\ Len(render.keyboard) = k + 1
            /\ \A i \in 1..k :
                  /\ Len(render.keyboard[i]) = 1
                  /\ render.keyboard[i][1].callback_data =
                        render.callback_prefix \o "_"
                        \o ToString(render.movies[i].id)
            /\ render.keyboard[k + 1] = <<MenuReturnButton>>
            /\ MenuReturnButton.callback_data = "menu_menu"

\* a list of more than 5 movies was rendered
C8_Witness ==
    /\ render.done
    /\ Len(render.movies) > 5
    /\ Len(render.keyboard) = 6

\* C9: a step changes a user's pending intent only if it is that user's
\* menu_search / menu_actor / menu_favorite press, which sets it to the
\* matching value, or that user's text message, which clears it.
C9_IntentFrame ==
    [][\A u \in Users :
         user_data'[u] # user_data[u] =>
            /\ last'.user = u
            /\ \/ /\ last'.handler = "menu"
                  /\ \/ last'.data = "menu_search" /\ Pending(u)' = "search"
                     \/ last'.data = "menu_actor" /\ Pending(u)' = "actor"
                     \/ last'.data = "menu_favorite"
                        /\ Pending(u)' = "favorite"
               \/ last'.handler = "text" /\ Pending(u)' = "None"]_vars

\* /start was handled for a user whose actor intent is still pending
C9_Witness ==
    /\ last.handler = "start"
    /\ Pending(last.user) = "actor"

\* the calls made for user u, and those that reported inserted=true
Callers(u) == {w \in Workers : worker[w].pc # "idle" /\ worker[w].user_id = u}
Inserted(u) == {w \in Callers(u) : worker[w].success}
AllDone == \A w \in Workers : worker[w].pc = "done"
StoreFailures == {"Database connection error.", "Gagal menambahkan favorit."}

\* the calls for user u that got their connection
Connected(u) ==
    {w \in Callers(u) : worker[w].message # "Database connection error."}

\* C10 as claimed: the store never holds two rows for a pair, and of the
\* concurrent adds of a pair, each on its own connection, exactly one
\* reports inserted=true.
C10_ExactlyOneInserted ==
    \A u \in Users :
        /\ PairCount(favorites, u, 1) <= 1
        /\ (AllDone /\ Connected(u) # {}) => Cardinality(Inserted(u)) = 1

\* C10 as amended: the store never holds two rows for a pair and at most one
\* of the concurrent adds of a pair reports inserted=true; on a table that
\* did not hold the pair, once all have returned, exactly one reports
\* inserted=true if some call met no connection or statement error, and none
\* if every call met one; the others report inserted=false.
C10_AtMostOneInserted ==
    \A u \in Users :
        /\ PairCount(favorites, u, 1) <= 1
        /\ Cardinality(Inserted(u)) = PairCount(favorites, u, 1)
        /\ AllDone =>
              (Cardinality(Inserted(u)) = 1
                 <=> \E w \in Callers(u) :
                        worker[w].message \notin StoreFailures)

\* two calls for one pair returned: one inserted, the other found the row
C10_Witness ==
    /\ AllDone
    /\ \E w1, w2 \in Workers :
          /\ w1 # w2
          /\ worker[w1].user_id = worker[w2].user_id
          /\ worker[w1].success
          /\ worker[w2].message = ExistsMessage(worker[w2].movie_title)

\* C11: a save_<id> press asks the catalog for movie/<id> first.  If the
\* answer is empty the handler replies with its error message, makes no
\* store call and leaves the favorites table as it was; otherwise it calls
\* add once, with the title taken from that answer, and the message is the
\* success message exactly when add reported inserted=true.
C11_SaveDetailFirst ==
    [][(last = NoRun /\ last'.handler = "save") =>
         /\ Len(last'.requests) = 1
         /\ last'.requests[1].endpoint = "movie/" \o SplitAll1(last'.data)
         /\ Len(last'.sent) = 1
         /\ last'.sent[1].markup = create_error_keyboard
         /\ IF last'.requests[1].response = EmptyDict
            THEN /\ last'.db = <<>>
                 /\ favorites' = favorites
                 /\ last'.sent[1].text = "save_no_detail"
            ELSE /\ Len(last'.db) = 1
                 /\ last'.db[1].op = "add"
                 /\ last'.db[1].movie_title =
                       Get(last'.requests[1].response, "title", "Unknown")
                 /\ last'.sent[1].text \in {"saved", "not_saved"}
                 /\ last'.sent[1].text = "saved" <=> last'.db[1].success
                 /\ last'.sent[1].about = <<last'.db[1].message>>]_vars

\* a save press whose detail lookup failed, on a table that holds rows, made
\* no store call
C11_Witness ==
    /\ last.handler = "save"
    /\ last.requests[1].response = EmptyDict
    /\ last.db = <<>>
    /\ BagToSet(favorites) # {}

====
